---- MODULE Spec2Model ----
(***************************************************************************)
(* Model of src/ifc_extractor.py: the depth-bounded recursive walk         *)
(* IFCExtractor.extract_ifc_types, the run()/main() driver around it and   *)
(* the ranking done by display_results.                                    *)
(*                                                                         *)
(* An object graph is a sequence of nodes; node 1 is the root.  A node is  *)
(* its __dict__: a sequence of <<name, value>> entries in insertion order. *)
(* An item of a list is an integer: k in 1..Len(graph) is the object k,    *)
(* any other integer is a value without __dict__ (int, str, None).         *)
(***************************************************************************)
EXTENDS Integers, Sequences, FiniteSets, TLC

VARIABLES
  graph,            \* the object graph held by the server / passed as data
  mode,             \* "run": main() and run(); "call": extract_ifc_types called directly;
                    \* "display": display_results called directly
  phase,            \* position of the driver
  max_depth,        \* the max_depth argument of the traversal in progress
  stack,            \* the recursion stack of extract_ifc_types, innermost frame last
  ifc_types,        \* the aggregation dict, as its entries in insertion order
  visits,           \* history: the nodes that passed both guards, in visit order
  calls,            \* history: number of invocations of extract_ifc_types
  sorted_types,     \* display_results: the ranked listing
  total_instances,  \* display_results: the reported total
  retval,           \* what run() returned
  exit_status,      \* exit status of the process, -1 while it runs
  printed           \* the outcome messages printed so far

vars == <<graph, mode, phase, max_depth, stack, ifc_types, visits, calls,
          sorted_types, total_instances, retval, exit_status, printed>>

\* ---------------------------------------------------------------- bounds
MaxM == 3
MaxBuckets == 3
MaxCount == 2

\* ------------------------------------------------------------- constants
DefaultMaxDepth == 10
MESH == "Objects.Geometry.Mesh"
UNKNOWN == "Unknown"

\* ------------------------------------------------------------ node model
L(items) == [kind |-> "list", items |-> items, str |-> ""]
S(s) == [kind |-> "str", items |-> <<>>, str |-> s]
A(name, value) == [name |-> name, value |-> value]

\* attr_name.startswith('_'): the private names used by the graphs below
PrivateNames == {"_cache"}
StartsWithUnderscore(name) == name \in PrivateNames

\* root.elements = [Wall g1, Mesh, Door g2 (elements = [Wall g3])]
ScenarioGraph ==
  << <<A("elements", L(<<2, 3, 4>>))>>,
     <<A("speckle_type", S("Wall")), A("GlobalId", S("g1"))>>,
     <<A("speckle_type", S(MESH))>>,
     <<A("speckle_type", S("Door")), A("GlobalId", S("g2")), A("elements", L(<<5>>))>>,
     <<A("speckle_type", S("Wall")), A("GlobalId", S("g3"))>> >>

\* a chain through `elements` only, one entity per depth 0..4
ChainGraph ==
  << <<A("speckle_type", S("Base")), A("GlobalId", S("g0")), A("elements", L(<<2>>))>>,
     <<A("speckle_type", S("Wall")), A("GlobalId", S("g1")), A("elements", L(<<3>>))>>,
     <<A("speckle_type", S("Door")), A("GlobalId", S("g2")), A("elements", L(<<4>>))>>,
     <<A("speckle_type", S("Wall")), A("GlobalId", S("g3")), A("elements", L(<<5>>))>>,
     <<A("speckle_type", S("Beam")), A("GlobalId", S("g4")), A("Name", S("deep")),
       A("elements", L(<<>>))>> >>

\* lists holding values without __dict__, a list attribute stored before
\* `elements`, a private list, a Mesh node with a child, an empty type
MixedGraph ==
  << <<A("items", L(<<0, 2>>)), A("Name", S("root")),
       A("elements", L(<<3, -1, 4>>)), A("_cache", L(<<6>>))>>,
     <<A("speckle_type", S(MESH)), A("GlobalId", S("g2")), A("elements", L(<<5>>))>>,
     <<A("speckle_type", S("Wall")), A("GlobalId", S("g3")), A("Tag", S("t3"))>>,
     <<A("speckle_type", S("")), A("GlobalId", S("g4")), A("parts", L(<<-2, 5>>))>>,
     <<A("speckle_type", S("Beam")), A("Name", S("b5")), A("ObjectType", S("o5"))>>,
     <<A("speckle_type", S("Slab")), A("GlobalId", S("g6"))>> >>

\* children reachable only through a list that is not called `elements`
ChildrenGraph ==
  << <<A("speckle_type", S("Base")), A("children", L(<<2, 3>>))>>,
     <<A("speckle_type", S("Door")), A("GlobalId", S("g2"))>>,
     <<A("speckle_type", S("Wall")), A("GlobalId", S("g3")), A("children", L(<<4>>))>>,
     <<A("speckle_type", S("Door")), A("GlobalId", S("g4")), A("children", L(<<5, 6>>))>>,
     <<A("speckle_type", S("Wall")), A("GlobalId", S("g5"))>>,
     <<A("speckle_type", S(MESH)), A("children", L(<<2>>))>> >>

\* a retrieved root under which nothing is classifiable
EmptyGraph ==
  << <<A("Name", S("empty")), A("elements", L(<<2>>))>>,
     <<A("speckle_type", S(MESH))>> >>

\* a node that is its own child through `elements`
SelfLoopGraph ==
  << <<A("speckle_type", S("Wall")), A("GlobalId", S("g1")), A("elements", L(<<1>>))>> >>

\* a back-reference through a list attribute other than `elements`
BackRefGraph ==
  << <<A("speckle_type", S("Wall")), A("GlobalId", S("g1")), A("children", L(<<2>>))>>,
     <<A("speckle_type", S("Door")), A("GlobalId", S("g2")), A("owner", L(<<1, 3>>))>>,
     <<A("speckle_type", S(MESH)), A("children", L(<<2>>))>> >>

Graphs == {ScenarioGraph, ChainGraph, MixedGraph, ChildrenGraph, EmptyGraph,
           SelfLoopGraph, BackRefGraph}

\* ------------------------------------------------------ attribute access
\* hasattr(item, '__dict__')
HasDict(g, item) == item \in 1..Len(g)

AttrIndex(n, name) ==
  IF \E i \in 1..Len(n) : n[i].name = name
  THEN CHOOSE i \in 1..Len(n) : n[i].name = name
  ELSE 0

HasAttr(n, name) == AttrIndex(n, name) # 0

\* getattr(data, name, default), as the string it holds
GetAttr(n, name, default) ==
  IF HasAttr(n, name) THEN n[AttrIndex(n, name)].value.str ELSE default

\* truth value of an attribute: a non-empty string or a non-empty list
Truthy(v) == IF v.kind = "list" THEN v.items # <<>> ELSE v.str # ""

\* data.elements when `hasattr(data, 'elements') and data.elements`, else <<>>
ElementsOf(n) ==
  IF HasAttr(n, "elements") /\ Truthy(n[AttrIndex(n, "elements")].value)
  THEN n[AttrIndex(n, "elements")].value.items
  ELSE <<>>

\* not attr_name.startswith('_') and isinstance(attr_value, list)
IsCollection(entry) ==
  ~StartsWithUnderscore(entry.name) /\ entry.value.kind = "list"

\* --------------------------------------------------------- classification
\* the guard with `>=`: the last permitted depth is cut off as well
DepthExceededInclusive(current_depth, m) == current_depth >= m

\* the guard one level late
DepthExceededLate(current_depth, m) == current_depth > m + 1

\* current_depth > max_depth
DepthExceeded(current_depth, m) == current_depth > m

\* the test without the comparison to the Mesh type
IsClassifiableNoSentinel(n) ==
  /\ HasAttr(n, "speckle_type")
  /\ n[AttrIndex(n, "speckle_type")].value.str # ""

\* hasattr(data, 'speckle_type') and data.speckle_type and it is not the Mesh type
IsClassifiable(n) ==
  /\ HasAttr(n, "speckle_type")
  /\ Truthy(n[AttrIndex(n, "speckle_type")].value)
  /\ GetAttr(n, "speckle_type", "") # MESH

InstanceInfo(n) ==
  [GlobalId   |-> GetAttr(n, "GlobalId", UNKNOWN),
   Name       |-> GetAttr(n, "Name", UNKNOWN),
   ObjectType |-> GetAttr(n, "ObjectType", UNKNOWN),
   Tag        |-> GetAttr(n, "Tag", UNKNOWN)]

KeyIndex(types, t) ==
  IF \E i \in 1..Len(types) : types[i].key = t
  THEN CHOOSE i \in 1..Len(types) : types[i].key = t
  ELSE 0

\* a new bucket that starts at count 1
EnsureBucketCountOne(types, t) ==
  IF \A i \in 1..Len(types) : types[i].key # t
  THEN Append(types, [key |-> t, count |-> 1, instances |-> <<>>])
  ELSE types

\* ifc_types[t] = {'count': 0, 'instances': []} when t is not a key yet
EnsureBucket(types, t) ==
  IF KeyIndex(types, t) = 0
  THEN Append(types, [key |-> t, count |-> 0, instances |-> <<>>])
  ELSE types

\* instances.insert(0, instance_info) in place of append
AddInstanceFront(types, t, info) ==
  [types EXCEPT ![KeyIndex(types, t)] =
     [@ EXCEPT !.count = @ + 1, !.instances = <<info>> \o @]]

\* count += 1 and instances.append(instance_info)
AddInstance(types, t, info) ==
  [types EXCEPT ![KeyIndex(types, t)] =
     [@ EXCEPT !.count = @ + 1, !.instances = Append(@, info)]]

ClassifyNode(types, n) ==
  AddInstance(EnsureBucket(types, GetAttr(n, "speckle_type", "")),
              GetAttr(n, "speckle_type", ""), InstanceInfo(n))

\* ------------------------------------------------------- recursion stack
Frame(item, depth, path) ==
  [node |-> item, depth |-> depth, pc |-> "entry", ai |-> 0, ii |-> 0, path |-> path]

Top == stack[Len(stack)]
Pop == SubSeq(stack, 1, Len(stack) - 1)
Running == phase = "extracting" /\ stack # <<>>

\* the frame of a call returns; the outermost return ends the traversal
ReturnFromCall ==
  /\ stack' = Pop
  /\ phase' = IF Len(stack) = 1 THEN "extracted" ELSE phase

\* push the callee's frame, the caller resumes at its next item
CallChild(resume, item, edge) ==
  /\ stack' = Append([stack EXCEPT ![Len(stack)] = resume],
                     Frame(item, Top.depth + 1, Append(Top.path, edge)))
  /\ calls' = calls + 1

Visit(n, classified) ==
  [node |-> n, depth |-> Top.depth, path |-> Top.path, classified |-> classified]

\* line 144: if current_depth > max_depth: return ifc_types
DepthReturn ==
  /\ Running /\ Top.pc = "entry"
  /\ DepthExceeded(Top.depth, max_depth)
  /\ ReturnFromCall
  /\ UNCHANGED <<graph, mode, max_depth, ifc_types, visits, calls,
                 sorted_types, total_instances, retval, exit_status, printed>>

\* line 147 false: data has no __dict__, fall through to return ifc_types
NotNodeReturn ==
  /\ Running /\ Top.pc = "entry"
  /\ ~DepthExceeded(Top.depth, max_depth)
  /\ ~HasDict(graph, Top.node)
  /\ ReturnFromCall
  /\ UNCHANGED <<graph, mode, max_depth, ifc_types, visits, calls,
                 sorted_types, total_instances, retval, exit_status, printed>>

\* lines 149-169: the node is counted and its instance record appended
Classify ==
  /\ Running /\ Top.pc = "entry"
  /\ ~DepthExceeded(Top.depth, max_depth)
  /\ HasDict(graph, Top.node)
  /\ IsClassifiable(graph[Top.node])
  /\ ifc_types' = ClassifyNode(ifc_types, graph[Top.node])
  /\ visits' = Append(visits, Visit(Top.node, TRUE))
  /\ stack' = [stack EXCEPT ![Len(stack)] = [@ EXCEPT !.pc = "elements", !.ii = 1]]
  /\ UNCHANGED <<graph, mode, phase, max_depth, calls,
                 sorted_types, total_instances, retval, exit_status, printed>>

\* lines 149, 153 false: no type, an empty type, or a geometry mesh
SkipClassify ==
  /\ Running /\ Top.pc = "entry"
  /\ ~DepthExceeded(Top.depth, max_depth)
  /\ HasDict(graph, Top.node)
  /\ ~IsClassifiable(graph[Top.node])
  /\ visits' = Append(visits, Visit(Top.node, FALSE))
  /\ stack' = [stack EXCEPT ![Len(stack)] = [@ EXCEPT !.pc = "elements", !.ii = 1]]
  /\ UNCHANGED <<graph, mode, phase, max_depth, ifc_types, calls,
                 sorted_types, total_instances, retval, exit_status, printed>>

\* lines 172-174: for element in data.elements: recurse at current_depth + 1
ElementsCall ==
  /\ Running /\ Top.pc = "elements"
  /\ Top.ii <= Len(ElementsOf(graph[Top.node]))
  /\ CallChild([Top EXCEPT !.ii = @ + 1],
               ElementsOf(graph[Top.node])[Top.ii], <<0, Top.ii>>)
  /\ UNCHANGED <<graph, mode, phase, max_depth, ifc_types, visits,
                 sorted_types, total_instances, retval, exit_status, printed>>

\* line 172 false or the loop is over: go on to data.__dict__.items()
ElementsDone ==
  /\ Running /\ Top.pc = "elements"
  /\ Top.ii > Len(ElementsOf(graph[Top.node]))
  /\ stack' = [stack EXCEPT ![Len(stack)] = [@ EXCEPT !.pc = "attrs", !.ai = 1, !.ii = 1]]
  /\ UNCHANGED <<graph, mode, phase, max_depth, ifc_types, visits, calls,
                 sorted_types, total_instances, retval, exit_status, printed>>

\* the attribute the loop of line 177 is at
CurAttr == graph[Top.node][Top.ai]
InAttrs == Running /\ Top.pc = "attrs" /\ Top.ai <= Len(graph[Top.node])
InItems == InAttrs /\ IsCollection(CurAttr) /\ Top.ii <= Len(CurAttr.value.items)

\* lines 179-181: an item with __dict__ is recursed into at current_depth + 1
AttrsCall ==
  /\ InItems
  /\ HasDict(graph, CurAttr.value.items[Top.ii])
  /\ CallChild([Top EXCEPT !.ii = @ + 1],
               CurAttr.value.items[Top.ii], <<Top.ai, Top.ii>>)
  /\ UNCHANGED <<graph, mode, phase, max_depth, ifc_types, visits,
                 sorted_types, total_instances, retval, exit_status, printed>>

\* an item without __dict__ ends the loop over its list (break)
AttrsSkipItemBreak ==
  /\ InItems
  /\ ~HasDict(graph, CurAttr.value.items[Top.ii])
  /\ stack' = [stack EXCEPT ![Len(stack)] =
                 [@ EXCEPT !.ii = Len(CurAttr.value.items) + 1]]
  /\ UNCHANGED <<graph, mode, phase, max_depth, ifc_types, visits, calls,
                 sorted_types, total_instances, retval, exit_status, printed>>

\* line 180 false: the item has no __dict__, the loop goes on
AttrsSkipItem ==
  /\ InItems
  /\ ~HasDict(graph, CurAttr.value.items[Top.ii])
  /\ stack' = [stack EXCEPT ![Len(stack)] = [@ EXCEPT !.ii = @ + 1]]
  /\ UNCHANGED <<graph, mode, phase, max_depth, ifc_types, visits, calls,
                 sorted_types, total_instances, retval, exit_status, printed>>

\* line 178 false or the list is exhausted: next entry of __dict__
AttrsNext ==
  /\ InAttrs
  /\ ~IsCollection(CurAttr) \/ Top.ii > Len(CurAttr.value.items)
  /\ stack' = [stack EXCEPT ![Len(stack)] = [@ EXCEPT !.ai = @ + 1, !.ii = 1]]
  /\ UNCHANGED <<graph, mode, phase, max_depth, ifc_types, visits, calls,
                 sorted_types, total_instances, retval, exit_status, printed>>

\* line 183: return ifc_types
Return ==
  /\ Running /\ Top.pc = "attrs"
  /\ Top.ai > Len(graph[Top.node])
  /\ ReturnFromCall
  /\ UNCHANGED <<graph, mode, max_depth, ifc_types, visits, calls,
                 sorted_types, total_instances, retval, exit_status, printed>>

Traverse ==
  \/ DepthReturn \/ NotNodeReturn \/ Classify \/ SkipClassify
  \/ ElementsCall \/ ElementsDone
  \/ AttrsCall \/ AttrsSkipItem \/ AttrsNext \/ Return

\* ------------------------------------------------------- display_results
RECURSIVE Reverse(_)
Reverse(s) == IF s = <<>> THEN <<>> ELSE Append(Reverse(Tail(s)), Head(s))

\* insert e behind every entry whose count is not larger: a stable ascending insertion
RECURSIVE InsertAscending(_, _)
InsertAscending(s, e) ==
  IF s = <<>> THEN <<e>>
  ELSE IF Head(s).count <= e.count THEN <<Head(s)>> \o InsertAscending(Tail(s), e)
  ELSE <<e>> \o s

RECURSIVE StableSortAscending(_)
StableSortAscending(s) ==
  IF s = <<>> THEN <<>>
  ELSE InsertAscending(StableSortAscending(SubSeq(s, 1, Len(s) - 1)), s[Len(s)])

\* an ascending sort turned around: descending, but ties come out backwards
SortedAscendingReversed(types) == Reverse(StableSortAscending(types))

\* sorted(ifc_types.items(), key=count, reverse=True): the list is reversed,
\* sorted by a stable ascending sort and reversed again
SortedByCount(types) == Reverse(StableSortAscending(Reverse(types)))

\* sum(info['count'] for info in ifc_types.values())
RECURSIVE SumCounts(_)
SumCounts(types) ==
  IF types = <<>> THEN 0 ELSE Head(types).count + SumCounts(Tail(types))

\* ------------------------------------------------------------ the driver
\* the objects extract_ifc_types recurses into from object k: the members of
\* data.elements and of every public list of data.__dict__
Children(g, k) ==
  {c \in 1..Len(g) :
     \/ \E i \in 1..Len(ElementsOf(g[k])) : ElementsOf(g[k])[i] = c
     \/ \E a \in 1..Len(g[k]) :
          /\ IsCollection(g[k][a])
          /\ \E i \in 1..Len(g[k][a].value.items) : g[k][a].value.items[i] = c}

\* the objects located at depth d below the root
RECURSIVE Level(_, _)
Level(g, d) ==
  IF d = 0 THEN {1} ELSE UNION {Children(g, k) : k \in Level(g, d - 1)}

\* an object graph has a cycle iff some walk from the root has Len(g) edges
Cyclic(g) == Level(g, Len(g)) # {}

\* extract_ifc_types(data, max_depth=M) called on the root
CallExtract ==
  /\ mode = "call" /\ phase = "idle"
  /\ \E m \in (0..MaxM) \cup (IF Cyclic(graph) THEN {} ELSE {DefaultMaxDepth}) :
       max_depth' = m
  /\ stack' = <<Frame(1, 0, <<>>)>>
  /\ calls' = calls + 1
  /\ phase' = "extracting"
  /\ UNCHANGED <<graph, mode, ifc_types, visits,
                 sorted_types, total_instances, retval, exit_status, printed>>

\* lines 191-192: authenticate() returns
AuthenticateOK ==
  /\ mode = "run" /\ phase = "idle"
  /\ phase' = "authenticated"
  /\ printed' = Append(printed, "Authenticated")
  /\ UNCHANGED <<graph, mode, max_depth, stack, ifc_types, visits, calls,
                 sorted_types, total_instances, retval, exit_status>>

\* lines 55, 50, 211-215: authenticate() raises, run() prints the error and returns None
AuthenticateRaise ==
  /\ mode = "run" /\ phase = "idle"
  /\ phase' = "run_returned"
  /\ printed' = Append(printed, "Error")
  /\ retval' = "None"
  /\ UNCHANGED <<graph, mode, max_depth, stack, ifc_types, visits, calls,
                 sorted_types, total_instances, exit_status>>

\* lines 195-199: receive_data() is True, extract_ifc_types(self.received_data)
ReceiveTrue ==
  /\ mode = "run" /\ phase = "authenticated"
  /\ printed' = Append(printed, "Received")
  /\ max_depth' = DefaultMaxDepth
  /\ stack' = <<Frame(1, 0, <<>>)>>
  /\ calls' = calls + 1
  /\ phase' = "extracting"
  /\ UNCHANGED <<graph, mode, ifc_types, visits,
                 sorted_types, total_instances, retval, exit_status>>

\* lines 137, 207-209: receive_data() is False
ReceiveFalse ==
  /\ mode = "run" /\ phase = "authenticated"
  /\ phase' = "run_returned"
  /\ printed' = Append(printed, "FailedToReceive")
  /\ retval' = "None"
  /\ UNCHANGED <<graph, mode, max_depth, stack, ifc_types, visits, calls,
                 sorted_types, total_instances, exit_status>>

\* lines 113, 134, 211-215: receive_data() raises
ReceiveRaise ==
  /\ mode = "run" /\ phase = "authenticated"
  /\ phase' = "run_returned"
  /\ printed' = Append(printed, "Error")
  /\ retval' = "None"
  /\ UNCHANGED <<graph, mode, max_depth, stack, ifc_types, visits, calls,
                 sorted_types, total_instances, exit_status>>

\* lines 201-203: the aggregation is not empty, display_results, return ifc_types
RunDisplay ==
  /\ mode = "run" /\ phase = "extracted"
  /\ ifc_types # <<>>
  /\ sorted_types' = SortedByCount(ifc_types)
  /\ total_instances' = SumCounts(ifc_types)
  /\ retval' = "ifc_types"
  /\ phase' = "run_returned"
  /\ UNCHANGED <<graph, mode, max_depth, stack, ifc_types, visits, calls,
                 exit_status, printed>>

\* lines 204-206: the aggregation is empty
RunNoTypes ==
  /\ mode = "run" /\ phase = "extracted"
  /\ ifc_types = <<>>
  /\ printed' = Append(printed, "NoTypesFound")
  /\ retval' = "None"
  /\ phase' = "run_returned"
  /\ UNCHANGED <<graph, mode, max_depth, stack, ifc_types, visits, calls,
                 sorted_types, total_instances, exit_status>>

\* lines 278-284: run() returned the aggregation
MainCompleted ==
  /\ mode = "run" /\ phase = "run_returned"
  /\ retval = "ifc_types"
  /\ \E export \in BOOLEAN :
       printed' = IF export THEN printed \o <<"Exported", "Completed">>
                  ELSE Append(printed, "Completed")
  /\ exit_status' = 0
  /\ phase' = "exited"
  /\ UNCHANGED <<graph, mode, max_depth, stack, ifc_types, visits, calls,
                 sorted_types, total_instances, retval>>

\* lines 285-287: run() returned None, sys.exit(1)
MainFailed ==
  /\ mode = "run" /\ phase = "run_returned"
  /\ retval = "None"
  /\ printed' = Append(printed, "ExtractionFailed")
  /\ exit_status' = 1
  /\ phase' = "exited"
  /\ UNCHANGED <<graph, mode, max_depth, stack, ifc_types, visits, calls,
                 sorted_types, total_instances, retval>>

Init ==
  /\ mode \in {"run", "call"}
  /\ graph \in (IF mode = "run" THEN {g \in Graphs : ~Cyclic(g)} ELSE Graphs)
  /\ phase = "idle"
  /\ max_depth = DefaultMaxDepth
  /\ stack = <<>>
  /\ ifc_types = <<>>
  /\ visits = <<>>
  /\ calls = 0
  /\ sorted_types = <<>>
  /\ total_instances = 0
  /\ retval = "unset"
  /\ exit_status = -1
  /\ printed = <<>>

Next ==
  \/ CallExtract
  \/ AuthenticateOK \/ AuthenticateRaise
  \/ ReceiveTrue \/ ReceiveFalse \/ ReceiveRaise
  \/ DepthReturn \/ NotNodeReturn \/ Classify \/ SkipClassify
  \/ ElementsCall \/ ElementsDone
  \/ AttrsCall \/ AttrsSkipItem \/ AttrsNext \/ Return
  \/ RunDisplay \/ RunNoTypes
  \/ MainCompleted \/ MainFailed

Spec == Init /\ [][Next]_vars

\* the interpreter runs the program to its end
FairSpec == Spec /\ WF_vars(Next)

\* ----------------------------------- display_results on a given aggregation
TypeNames == <<"IfcWall", "IfcDoor", "IfcBeam", "IfcSlab">>

Sample(k, j) ==
  [GlobalId |-> "g", Name |-> UNKNOWN, ObjectType |-> UNKNOWN, Tag |-> UNKNOWN]

\* the aggregations of up to MaxBuckets types, each seen 1..MaxCount times
Aggregations ==
  UNION {
    { [i \in 1..n |-> [key |-> TypeNames[ks[i]], count |-> cs[i],
                      instances |-> [j \in 1..cs[i] |-> Sample(ks[i], j)]]] :
        <<ks, cs>> \in
          {ks \in [1..n -> 1..Len(TypeNames)] :
             \A a, b \in 1..n : a # b => ks[a] # ks[b]}
          \X [1..n -> 1..MaxCount] }
    : n \in 1..MaxBuckets }

InitDisplay ==
  /\ mode = "display"
  /\ ifc_types \in Aggregations
  /\ graph = <<>>
  /\ phase = "idle"
  /\ max_depth = DefaultMaxDepth
  /\ stack = <<>>
  /\ visits = <<>>
  /\ calls = 0
  /\ sorted_types = <<>>
  /\ total_instances = 0
  /\ retval = "unset"
  /\ exit_status = -1
  /\ printed = <<>>

\* lines 217-241: display_results(ifc_types)
DisplayCall ==
  /\ mode = "display" /\ phase = "idle"
  /\ sorted_types' = SortedByCount(ifc_types)
  /\ total_instances' = SumCounts(ifc_types)
  /\ phase' = "displayed"
  /\ UNCHANGED <<graph, mode, max_depth, stack, ifc_types, visits, calls,
                 retval, exit_status, printed>>

NextDisplay == DisplayCall

DisplaySpec == InitDisplay /\ [][NextDisplay]_vars

\* ================================================================ claims
\* the call of extract_ifc_types on the root has returned
TraversalReturned == calls > 0 /\ phase # "extracting"

Within(g, m) == UNION {Level(g, d) : d \in 0..m}

TypeOf(k) == GetAttr(graph[k], "speckle_type", "")
IsMesh(k) == TypeOf(k) = MESH

Keys(types) == {types[i].key : i \in 1..Len(types)}
Bucket(types, t) == types[KeyIndex(types, t)]
GlobalIds(b) == [i \in 1..Len(b.instances) |-> b.instances[i].GlobalId]

VisitIdx == 1..Len(visits)
ClassifiedIdx == {i \in VisitIdx : visits[i].classified}

\* the instance records of the classified visits of type t, in visit order
RECURSIVE RecordsOfType(_, _)
RecordsOfType(vs, t) ==
  IF vs = <<>> THEN <<>>
  ELSE IF Head(vs).classified /\ TypeOf(Head(vs).node) = t
       THEN <<InstanceInfo(graph[Head(vs).node])>> \o RecordsOfType(Tail(vs), t)
       ELSE RecordsOfType(Tail(vs), t)

\* the edges leaving object k: <<0, i>> is member i of data.elements, reached by
\* the first loop, <<a, i>> member i of entry a of data.__dict__, reached by the second
ElementEdges(k) == {<<0, i>> : i \in 1..Len(ElementsOf(graph[k]))}
ListEdges(k) ==
  UNION {{<<a, i>> : i \in 1..Len(graph[k][a].value.items)} :
           a \in {a \in 1..Len(graph[k]) : IsCollection(graph[k][a])}}
EdgeItem(k, e) ==
  IF e[1] = 0 THEN ElementsOf(graph[k])[e[2]] ELSE graph[k][e[1]].value.items[e[2]]

\* every object held by a list of the visited node v was visited through that
\* very edge, one level deeper, and classified iff it is classifiable; a member
\* without __dict__ was not visited
ChildrenVisited(v) ==
  \A e \in ElementEdges(v.node) \cup ListEdges(v.node) :
    IF HasDict(graph, EdgeItem(v.node, e))
    THEN \E j \in VisitIdx :
           /\ visits[j].path = Append(v.path, e)
           /\ visits[j].node = EdgeItem(v.node, e)
           /\ visits[j].depth = v.depth + 1
           /\ visits[j].classified = IsClassifiable(graph[EdgeItem(v.node, e)])
    ELSE \A j \in VisitIdx : visits[j].path # Append(v.path, e)

HasNonNodeItem(k) ==
  \E e \in ElementEdges(k) \cup ListEdges(k) : ~HasDict(graph, EdgeItem(k, e))

\* C1: extract_ifc_types with max_depth = 10 on the root whose elements are
\* [Wall g1, Mesh, Door g2 (elements = [Wall g3])] returns Wall: count 2 with
\* samples [g1, g3], Door: count 1 with samples [g2], and no Mesh bucket.
C1_Scenario ==
  (TraversalReturned /\ graph = ScenarioGraph /\ max_depth = DefaultMaxDepth) =>
    /\ Keys(ifc_types) = {"Wall", "Door"}
    /\ Bucket(ifc_types, "Wall").count = 2
    /\ GlobalIds(Bucket(ifc_types, "Wall")) = <<"g1", "g3">>
    /\ Bucket(ifc_types, "Door").count = 1
    /\ GlobalIds(Bucket(ifc_types, "Door")) = <<"g2">>

\* C2: with the root at depth 0, every visit happens at a depth <= max_depth
\* at which the visited object is located, and the traversal returns having
\* classified exactly the classifiable objects located at some depth
\* <= max_depth: the bucket keys are exactly the types of those objects.
C2_DepthBound ==
  /\ \A i \in VisitIdx :
       /\ visits[i].depth <= max_depth
       /\ visits[i].depth = Len(visits[i].path)
       /\ visits[i].node \in Level(graph, visits[i].depth)
  /\ TraversalReturned =>
       /\ {visits[i].node : i \in ClassifiedIdx} =
            {k \in Within(graph, max_depth) : IsClassifiable(graph[k])}
       /\ Keys(ifc_types) =
            {TypeOf(k) : k \in {k \in Within(graph, max_depth) : IsClassifiable(graph[k])}}

C2_Witness ==
  /\ TraversalReturned
  /\ \E i \in ClassifiedIdx : visits[i].depth = max_depth
  /\ \E k \in 1..Len(graph) :
       /\ IsClassifiable(graph[k])
       /\ k \in Level(graph, max_depth + 1)
       /\ k \notin Within(graph, max_depth)

\* C3: no bucket is keyed by the Mesh type and no visit of a Mesh node counts
\* or records anything (the counts add up to the classified visits, none of
\* which is a Mesh node); the members of the lists of a visited Mesh node above
\* the depth bound are nevertheless all visited and classified.
C3_SentinelExclusion ==
  /\ MESH \notin Keys(ifc_types)
  /\ \A i \in VisitIdx : IsMesh(visits[i].node) => ~visits[i].classified
  /\ SumCounts(ifc_types) = Cardinality(ClassifiedIdx)
  /\ TraversalReturned =>
       \A i \in VisitIdx :
         (IsMesh(visits[i].node) /\ visits[i].depth < max_depth) =>
           ChildrenVisited(visits[i])

C3_Witness ==
  /\ TraversalReturned
  /\ \E i \in VisitIdx, j \in ClassifiedIdx :
       /\ IsMesh(visits[i].node)
       /\ Len(visits[j].path) = Len(visits[i].path) + 1
       /\ SubSeq(visits[j].path, 1, Len(visits[i].path)) = visits[i].path

\* C4: in every state of a traversal every bucket has count = Len(instances)
\* and count >= 1.
C4_CountConsistency ==
  \A i \in 1..Len(ifc_types) :
    /\ ifc_types[i].count = Len(ifc_types[i].instances)
    /\ ifc_types[i].count >= 1

C4_Witness ==
  /\ phase = "extracting"
  /\ Len(ifc_types) >= 2
  /\ \E i \in 1..Len(ifc_types) : ifc_types[i].count >= 2

\* an object graph whose lists are all called `elements` and in which every
\* object is a member of at most one list, once, and the root of none
ElementsOnlyTree(g) ==
  /\ \A k \in 1..Len(g) : \A a \in 1..Len(g[k]) :
       IsCollection(g[k][a]) => g[k][a].name = "elements"
  /\ \A c \in 1..Len(g) :
       Cardinality({<<k, i>> \in (1..Len(g)) \X (1..Len(g)) :
                      i <= Len(ElementsOf(g[k])) /\ ElementsOf(g[k])[i] = c})
         <= (IF c = 1 THEN 0 ELSE 1)

\* C5: the second loop never recurses into the members of `elements`, so that
\* in a tree whose children are reachable through `elements` only, each
\* classifiable node within the depth bound adds exactly 1 to its type's count.
C5_DisjointPasses ==
  /\ \A j \in 2..Len(stack) :
       stack[j].path[Len(stack[j].path)][1] # 0 =>
         graph[stack[j - 1].node][stack[j].path[Len(stack[j].path)][1]].name # "elements"
  /\ (TraversalReturned /\ ElementsOnlyTree(graph)) =>
       /\ \A k \in Within(graph, max_depth) :
            IsClassifiable(graph[k]) =>
              Cardinality({i \in ClassifiedIdx : visits[i].node = k}) = 1
       /\ \A t \in Keys(ifc_types) :
            Bucket(ifc_types, t).count =
              Cardinality({k \in Within(graph, max_depth) :
                             IsClassifiable(graph[k]) /\ TypeOf(k) = t})

\* the object a path of edges leads to from the root
RECURSIVE PathNode(_, _)
PathNode(k, path) ==
  IF path = <<>> THEN k ELSE PathNode(EdgeItem(k, Head(path)), Tail(path))

EdgeBefore(e, f) == e[1] < f[1] \/ (e[1] = f[1] /\ e[2] < f[2])

\* p comes before q in depth-first pre-order: p is a proper prefix of q, or at
\* the first edge where they differ p takes the earlier one (`elements`, edge
\* <<0, i>>, before the lists of __dict__, and list order within a list)
PreOrderBefore(p, q) ==
  \E n \in 1..Len(q) :
    /\ n <= Len(p) + 1
    /\ \A j \in 1..(n - 1) : p[j] = q[j]
    /\ n = Len(p) + 1 \/ EdgeBefore(p[n], q[n])

\* C6: the visits happen in depth-first pre-order of the paths that lead to
\* them (a node before its sub-tree, the members of `elements` with their
\* sub-trees before the members reached by the loop over the other lists, list
\* order within a list), and the instances of each bucket are exactly the
\* records of the classified visits of its type, in visit order.
C6_PreOrder ==
  /\ \A i \in VisitIdx : PathNode(1, visits[i].path) = visits[i].node
  /\ \A i \in 1..(Len(visits) - 1) :
       PreOrderBefore(visits[i].path, visits[i + 1].path)
  /\ \A b \in 1..Len(ifc_types) :
       ifc_types[b].instances = RecordsOfType(visits, ifc_types[b].key)

C6_Witness ==
  /\ TraversalReturned
  /\ \E i, j, k \in VisitIdx :
       /\ i < j /\ j < k
       /\ visits[j].path = Append(visits[i].path, <<0, 1>>)
       /\ Len(visits[k].path) = Len(visits[i].path) + 1
       /\ visits[k].path[Len(visits[k].path)][1] > 0
       /\ SubSeq(visits[k].path, 1, Len(visits[i].path)) = visits[i].path
  /\ \E b \in 1..Len(ifc_types) :
       /\ Len(ifc_types[b].instances) >= 2
       /\ ifc_types[b].instances[1] # ifc_types[b].instances[2]

RetrievalFailed == "Error" \in {printed[i] : i \in 1..Len(printed)}
                   \/ "FailedToReceive" \in {printed[i] : i \in 1..Len(printed)}
EmptySuccess == "Received" \in {printed[i] : i \in 1..Len(printed)} /\ ifc_types = <<>>

\* C8: a retrieval failure ends in a non-zero exit without extract_ifc_types
\* having been invoked; an empty but successful aggregation is reported as
\* "no types found" and does not end like a failed retrieval (run() returning
\* None and exit status 1).
C8_OutcomeDistinction ==
  phase = "exited" =>
    /\ RetrievalFailed => (exit_status # 0 /\ calls = 0)
    /\ EmptySuccess =>
         /\ "NoTypesFound" \in {printed[i] : i \in 1..Len(printed)}
         /\ ~(retval = "None" /\ exit_status = 1)

\* C9: the ranked listing of display_results is a permutation of the buckets
\* in descending order of count, buckets of equal count keep the order in which
\* the aggregation holds them, and the reported total is the number of counted
\* instances of all buckets.
C9_RankingStability ==
  phase = "displayed" =>
    /\ Len(sorted_types) = Len(ifc_types)
    /\ \A i \in 1..Len(ifc_types) :
         Cardinality({j \in 1..Len(sorted_types) : sorted_types[j] = ifc_types[i]}) = 1
    /\ \A i, j \in 1..Len(sorted_types) :
         i < j =>
           /\ sorted_types[i].count >= sorted_types[j].count
           /\ sorted_types[i].count = sorted_types[j].count =>
                KeyIndex(ifc_types, sorted_types[i].key)
                  < KeyIndex(ifc_types, sorted_types[j].key)
    /\ total_instances =
         Cardinality({p \in (1..Len(ifc_types)) \X (1..MaxCount) :
                        p[2] <= ifc_types[p[1]].count})

C9_Witness ==
  /\ phase = "displayed"
  /\ \E i, j, k \in 1..Len(ifc_types) :
       /\ i < j /\ j < k
       /\ ifc_types[i].count = ifc_types[j].count
       /\ ifc_types[k].count > ifc_types[i].count
       /\ sorted_types[1] = ifc_types[k]

\* C10: on every graph, cyclic ones included, the recursion stack never holds
\* more than max_depth + 2 frames and a traversal that started returns.
C10_Termination ==
  /\ [](Len(stack) <= max_depth + 2)
  /\ (phase = "extracting") ~> (phase # "extracting")

C10_Witness ==
  /\ Cyclic(graph)
  /\ phase = "extracted"
  /\ calls > Len(graph)
  /\ \E i \in VisitIdx : visits[i].depth = max_depth

====
